---- MODULE Spec2Model ----
(***************************************************************************)
(* Authentication and session subsystem of the course platform             *)
(* (src/user_auth_manager.py): PasswordManager, SessionManager and         *)
(* UserManager, as a state machine; and the course catalog                 *)
(* (src/course_manager.py): CourseManager.create_course.                   *)
(*                                                                         *)
(* Representation.                                                         *)
(*  - A Python str is a sequence of one-character strings, so that len,    *)
(*    concatenation, split and the regular expressions are computed on the *)
(*    characters.                                                          *)
(*  - Optional[x] is a sequence of length 0 (None) or 1 (the value).       *)
(*  - A dict is a function whose DOMAIN is the set of its keys.            *)
(*  - datetime values are naturals (clock ticks of one hour); timedelta is *)
(*    a natural.  The clock never runs backwards.                          *)
(*  - secrets.token_urlsafe / token_hex results are unguessable random     *)
(*    values: a fresh token or user id is one never produced before, a     *)
(*    salt is any member of Salts.                                         *)
(*  - hashlib.sha256(..).hexdigest() is treated as collision-free: Sha256  *)
(*    is an injective encoding of its input over the hex alphabet.         *)
(***************************************************************************)
EXTENDS Integers, Sequences, FiniteSets, TLC

VARIABLES
    users,             \* UserManager.users: user_id -> User
    email_index,       \* UserManager.email_index: email -> user_id
    sessions,          \* SessionManager.sessions: token -> session dict
    session_duration,  \* SessionManager.session_duration
    now,               \* the value datetime.now() returns at this instant
    last,              \* the step just taken: call, arguments and outcome
    issued,            \* history: token -> what login stored for it
    registered,        \* history: email -> password given to register_user
    revoked,           \* history: tokens revoke_session returned True for
    absent,            \* history: issued tokens validate_session returned
                       \*          None for
    pw,                \* argument of a direct validate_password_strength call
    pw_result,         \* its outcome
    courses,           \* CourseManager.courses: course_id -> Course
    course_last,       \* the create_course call just made and its outcome
    reg_call,          \* concurrent register_user calls: caller -> frame
    sess_call          \* concurrent validate_session / revoke_session
                       \* calls: caller -> frame

vars == <<users, email_index, sessions, session_duration, now, last,
          issued, registered, revoked, absent, pw, pw_result,
          courses, course_last, reg_call, sess_call>>

-----------------------------------------------------------------------------
(* Bounds of the model *)

MaxClock == 1
MaxTokens == 2
MaxPwdLen == 8

-----------------------------------------------------------------------------
(* Characters *)

UpperAZ == {"A","B","C","D","E","F","G","H","I","J","K","L","M",
            "N","O","P","Q","R","S","T","U","V","W","X","Y","Z"}
LowerAZ == {"a","b","c","d","e","f","g","h","i","j","k","l","m",
            "n","o","p","q","r","s","t","u","v","w","x","y","z"}
Digit09 == {"0","1","2","3","4","5","6","7","8","9"}

\* re.search(r'[A-Z]', s), re.search(r'[a-z]', s), re.search(r'\d', s)
Search(class, s) == \E i \in 1..Len(s) : s[i] \in class

None == <<>>
Some(x) == <<x>>
EmptyDict == [k \in {} |-> {}]
Put(d, k, v) == [x \in DOMAIN d \cup {k} |-> IF x = k THEN v ELSE d[x]]
Del(d, k) == [x \in DOMAIN d \ {k} |-> d[x]]

-----------------------------------------------------------------------------
(* PasswordManager *)

MIN_PASSWORD_LENGTH == 8

\* hashlib.sha256(s.encode()).hexdigest(), collision-free: symbol i of the
\* digest is the image of character i of the input; no symbol is "$".
Sha256Hex(s) == [i \in 1..Len(s) |-> "h" \o s[i]]

\* str.split(d): the parts of s between the occurrences of d
RECURSIVE Split(_, _)
Split(s, d) ==
    IF \E i \in 1..Len(s) : s[i] = d
    THEN LET i == CHOOSE j \in 1..Len(s) :
                      s[j] = d /\ \A k \in 1..(j - 1) : s[k] # d
         IN  <<SubSeq(s, 1, i - 1)>> \o Split(SubSeq(s, i + 1, Len(s)), d)
    ELSE <<s>>

\* hash_password with the salt that secrets.token_hex returned
HashPassword(password, salt) ==
    LET pwd_hash == Sha256Hex(password \o salt)
    IN  salt \o <<"$">> \o pwd_hash

\* (mutant) the digest is recomputed without the salt
VerifyPasswordNoSalt(password, stored_hash) ==
    LET parts == Split(stored_hash, "$")
    IN  IF Len(parts) # 2
        THEN FALSE
        ELSE Sha256Hex(password) = parts[2]

VerifyPassword(password, stored_hash) ==
    LET parts == Split(stored_hash, "$")
    IN  IF Len(parts) # 2
        THEN FALSE                       \* ValueError caught, logged
        ELSE LET salt == parts[1]
                 pwd_hash == parts[2]
                 computed_hash == Sha256Hex(password \o salt)
             IN  computed_hash = pwd_hash

Returned == [kind |-> "ok", msg |-> <<>>]
Raised(kind, msg) == [kind |-> kind, msg |-> msg]

MsgLength ==
    <<"Contraseña debe tener " \o ToString(MIN_PASSWORD_LENGTH)
        \o "+ caracteres">>
MsgUpper == <<"Debe contener una mayúscula">>
MsgLower == <<"Debe contener una minúscula">>
MsgDigit == <<"Debe contener un número">>

\* (mutant) a password of exactly the minimum length is rejected
ValidatePasswordStrengthOffByOne(password) ==
    IF Len(password) <= MIN_PASSWORD_LENGTH
    THEN Raised("ValidationError", MsgLength)
    ELSE IF ~Search(UpperAZ, password)
    THEN Raised("ValidationError", MsgUpper)
    ELSE IF ~Search(LowerAZ, password)
    THEN Raised("ValidationError", MsgLower)
    ELSE IF ~Search(Digit09, password)
    THEN Raised("ValidationError", MsgDigit)
    ELSE Returned

ValidatePasswordStrength(password) ==
    IF Len(password) < MIN_PASSWORD_LENGTH
    THEN Raised("ValidationError", MsgLength)
    ELSE IF ~Search(UpperAZ, password)
    THEN Raised("ValidationError", MsgUpper)
    ELSE IF ~Search(LowerAZ, password)
    THEN Raised("ValidationError", MsgLower)
    ELSE IF ~Search(Digit09, password)
    THEN Raised("ValidationError", MsgDigit)
    ELSE Returned

-----------------------------------------------------------------------------
(* User *)

VALID_USER_TYPES == {"student", "instructor", "admin"}

\* User.__init__.  created_at, a timestamp no operation reads back, is
\* left out of the record (and of the view to_dict returns).
NewUser(user_id, email, password_hash, name, user_type) ==
    [user_id |-> user_id, email |-> email, password_hash |-> password_hash,
     name |-> name, user_type |-> user_type,
     last_login |-> None, is_active |-> TRUE, enrolled_courses |-> <<>>]

\* (mutant) the view carries every field of the record
ToDictLeak(user) == user

\* User.to_dict
ToDict(user) ==
    [user_id |-> user.user_id, email |-> user.email, name |-> user.name,
     user_type |-> user.user_type, is_active |-> user.is_active]

-----------------------------------------------------------------------------
(* UserManager._validate_email *)

LocalChars == UpperAZ \cup LowerAZ \cup Digit09 \cup {".", "_", "%", "+", "-"}
DomainChars == UpperAZ \cup LowerAZ \cup Digit09 \cup {".", "-"}
TldChars == UpperAZ \cup LowerAZ

AllIn(s, lo, hi, class) == \A k \in lo..hi : s[k] \in class

\* re.match(r'^[a-zA-Z0-9._%+-]+@[a-zA-Z0-9.-]+\.[a-zA-Z]{2,}$', email):
\* "$" matches at the end of the string and before a final newline.
MatchesEmailPattern(email) ==
    \E m \in {Len(email)} \cup
             {n \in {Len(email) - 1} : n >= 0 /\ email[n + 1] = "\n"} :
      \E i \in 2..m : \E j \in (i + 2)..(m - 2) :
          /\ email[i] = "@"
          /\ email[j] = "."
          /\ AllIn(email, 1, i - 1, LocalChars)
          /\ AllIn(email, i + 1, j - 1, DomainChars)
          /\ AllIn(email, j + 1, m, TldChars)

MsgEmail == <<"Email inválido">>

ValidateEmail(email) ==
    IF ~MatchesEmailPattern(email)
    THEN Raised("ValidationError", MsgEmail)
    ELSE Returned

-----------------------------------------------------------------------------
(* Inputs of the calls *)

EmailAna == <<"a", "@", "b", ".", "c", "o">>          \* "a@b.co"
EmailBob == <<"b", "@", "b", ".", "c", "o">>          \* "b@b.co"
EmailBad == <<"a", "@", "b", ".", "c">>               \* "a@b.c"
EmailNewline == <<"b", "@", "b", ".", "c", "o", "\n">>   \* "b@b.co\n"

Passw0rd == <<"P", "a", "s", "s", "w", "0", "r", "d">>
Passw0rd1 == <<"P", "a", "s", "s", "w", "0", "r", "d", "1">>
Short1 == <<"s", "h", "o", "r", "t", "1">>

\* the callers of the session life cycle: two accounts, one good password
SessionEmails == {EmailAna, EmailBob}
SessionPasswords == {Passw0rd, Short1}
SessionUserTypes == {"student"}
SessionSalts == {<<"a", "1">>}

\* the callers of the directory: any of the emails, passwords and user
\* types; the salts are values secrets.token_hex(16) may return (shortened)
Emails == {EmailAna, EmailNewline, EmailBad}
Passwords == {Passw0rd, Passw0rd1, Short1}
UserTypes == {"student", "guest"}
Salts == {<<"a", "1">>, <<"1", "a">>}
Names == {"Ana"}

\* SessionManager(session_duration_hours = h); one clock tick is one hour
Durations == {0, 1}

\* (mutant) a token that was issued before and is no longer stored comes
\* back from the generator
FreshTokenReused ==
    IF \E t \in DOMAIN issued : t \notin DOMAIN sessions
    THEN CHOOSE t \in DOMAIN issued : t \notin DOMAIN sessions
    ELSE Cardinality(DOMAIN issued) + 1

\* (mutant) the user id generator returns the same value every time
FreshUserIdFixed == <<"user_", 1>>

\* secrets.token_urlsafe(32) and "user_" + secrets.token_hex(8) return a
\* value never returned before; the model numbers them in the order made.
Tokens == 1..MaxTokens
FreshToken ==
    Cardinality(DOMAIN issued) + 1
FreshUserId == <<"user_", Cardinality(DOMAIN users) + 1>>

\* how far the clock may move between two readings inside one call
Elapsed == {0, 1}

\* characters of the passwords given to validate_password_strength directly
PwdChars == {"A", "a", "1", "$"}
PwdInputs == UNION {[1..n -> PwdChars] : n \in 0..MaxPwdLen}

-----------------------------------------------------------------------------
(* The step just taken *)

Step(op, email, password, token, out, uid, flag, view) ==
    [op |-> op, email |-> email, password |-> password, token |-> token,
     kind |-> out.kind, msg |-> out.msg, uid |-> uid, flag |-> flag,
     view |-> view]

NoStep == Step("init", <<>>, <<>>, None, Returned, None, None, None)

UserState == <<users, email_index, registered>>
SessionState == <<sessions, issued, revoked, absent>>
PwdState == <<pw, pw_result>>
CourseState == <<courses, course_last>>
RaceState == <<reg_call, sess_call>>

\* no create_course call was made; no concurrent call is in progress
CourseStep(op, course_id, title, description, price, level, category, out, course) ==
    [op |-> op, course_id |-> course_id, title |-> title,
     description |-> description, price |-> price, level |-> level,
     category |-> category, kind |-> out.kind, msg |-> out.msg,
     course |-> course]
NoCourseCall ==
    CourseStep("init", "", <<>>, <<>>, 0, <<>>, <<>>, Returned, None)
NoCalls == <<>>
Elsewhere ==
    /\ courses = EmptyDict
    /\ course_last = NoCourseCall
    /\ reg_call = NoCalls
    /\ sess_call = NoCalls

-----------------------------------------------------------------------------
(* SessionManager *)

\* the dict create_session stores: expiry from the first clock reading,
\* created_at from the second
NewSession(user_id, t_expiry, t_created) ==
    [user_id |-> user_id, created_at |-> t_created,
     expires_at |-> t_expiry + session_duration]

\* (mutant) revoke_session reports the entry and leaves it in the map
RevokeMapKeep(map, token) == map

\* revoke_session: the map it leaves and the value it returns
RevokeMap(map, token) ==
    IF token \in DOMAIN map THEN Del(map, token) ELSE map
RevokeValue(map, token) == token \in DOMAIN map

\* (mutant) an expired entry is reported absent and left in the map
ValidateMapNoEvict(map, token, t) == map

\* (mutant) the session counts as expired at its expiry instant already
ValidateValueOffByOne(map, token, t) ==
    IF token \notin DOMAIN map THEN None
    ELSE IF t >= map[token].expires_at THEN None
    ELSE Some(map[token].user_id)

\* (mutant) validate_session sweeps every expired entry out of the map
ValidateMapSweep(map, token, t) ==
    [x \in {k \in DOMAIN map : ~(t > map[k].expires_at)} |-> map[x]]

\* validate_session at clock reading t: the map it leaves, the value it returns
ValidateMap(map, token, t) ==
    IF token \notin DOMAIN map THEN map
    ELSE IF t > map[token].expires_at THEN RevokeMap(map, token)
    ELSE map

ValidateValue(map, token, t) ==
    IF token \notin DOMAIN map THEN None
    ELSE IF t > map[token].expires_at THEN None
    ELSE Some(map[token].user_id)

ValidateSession(token) ==
    LET value == ValidateValue(sessions, token, now)
    IN  /\ sessions' = ValidateMap(sessions, token, now)
        /\ absent' = IF token \in DOMAIN issued /\ value = None
                     THEN absent \cup {token} ELSE absent
        /\ last' = Step("validate_session", <<>>, <<>>, Some(token),
                        Returned, value, None, None)
        /\ UNCHANGED <<UserState, issued, revoked, session_duration, now,
                       PwdState, CourseState, RaceState>>

RevokeSession(token) ==
    LET value == RevokeValue(sessions, token)
    IN  /\ sessions' = RevokeMap(sessions, token)
        /\ revoked' = IF value THEN revoked \cup {token} ELSE revoked
        /\ last' = Step("revoke_session", <<>>, <<>>, Some(token),
                        Returned, None, Some(value), None)
        /\ UNCHANGED <<UserState, issued, absent, session_duration, now,
                       PwdState, CourseState, RaceState>>

-----------------------------------------------------------------------------
(* UserManager *)

MsgDuplicate(email) == <<"Email ">> \o email \o <<" ya registrado">>
MsgCredentials == <<"Credenciales incorrectas">>

\* (mutant) the uniqueness check is missing
RegisterChecksNoUnique(email, password) ==
    IF ValidateEmail(email).kind # "ok" THEN ValidateEmail(email)
    ELSE ValidatePasswordStrength(password)

\* (mutant) the strength check runs before the uniqueness check
RegisterChecksStrengthFirst(email, password) ==
    IF ValidateEmail(email).kind # "ok" THEN ValidateEmail(email)
    ELSE IF ValidatePasswordStrength(password).kind # "ok"
    THEN ValidatePasswordStrength(password)
    ELSE IF email \in DOMAIN email_index
    THEN Raised("ValidationError", MsgDuplicate(email))
    ELSE Returned

\* the checks of register_user, in the order the code runs them
RegisterChecks(email, password) ==
    IF ValidateEmail(email).kind # "ok" THEN ValidateEmail(email)
    ELSE IF email \in DOMAIN email_index
    THEN Raised("ValidationError", MsgDuplicate(email))
    ELSE ValidatePasswordStrength(password)

\* (mutant) the user is stored before the password strength is checked
RegisterUserStoreFirst(email, password, name, user_type, salt) ==
    LET out == RegisterChecks(email, password)
        user_id == FreshUserId
        password_hash == HashPassword(password, salt)
        new_user == NewUser(user_id, email, password_hash, name, user_type)
        early == /\ ValidateEmail(email).kind = "ok"
                 /\ email \notin DOMAIN email_index
    IN  /\ users' = IF early THEN Put(users, user_id, new_user) ELSE users
        /\ email_index' = IF early THEN Put(email_index, email, user_id)
                          ELSE email_index
        /\ registered' = IF out.kind = "ok"
                         THEN Put(registered, email, password)
                         ELSE registered
        /\ last' = Step("register_user", email, password, None, out,
                        IF out.kind = "ok" THEN Some(user_id) ELSE None,
                        None, None)
        /\ UNCHANGED <<SessionState, session_duration, now, PwdState,
                       CourseState, RaceState>>

\* register_user; salt is the value secrets.token_hex(16) returns in
\* hash_password
RegisterUser(email, password, name, user_type, salt) ==
    LET out == RegisterChecks(email, password)
        user_id == FreshUserId
        password_hash == HashPassword(password, salt)
        new_user == NewUser(user_id, email, password_hash, name, user_type)
    IN  IF out.kind # "ok"
        THEN /\ last' = Step("register_user", email, password, None, out,
                             None, None, None)
             /\ UNCHANGED <<UserState, SessionState, session_duration, now,
                            PwdState, CourseState, RaceState>>
        ELSE /\ users' = Put(users, user_id, new_user)
             /\ email_index' = Put(email_index, email, user_id)
             /\ registered' = Put(registered, email, password)
             /\ last' = Step("register_user", email, password, None, out,
                             Some(user_id), None, None)
             /\ UNCHANGED <<SessionState, session_duration, now, PwdState,
                            CourseState, RaceState>>

\* (mutant) an unknown email gets a message of its own
LoginChecksDistinct(email, password) ==
    IF email \notin DOMAIN email_index
    THEN Raised("AuthenticationError", <<"Usuario no encontrado">>)
    ELSE IF ~VerifyPassword(password, users[email_index[email]].password_hash)
    THEN Raised("AuthenticationError", MsgCredentials)
    ELSE Returned

\* the checks of login
LoginChecks(email, password) ==
    IF email \notin DOMAIN email_index
    THEN Raised("AuthenticationError", MsgCredentials)
    ELSE IF ~VerifyPassword(password, users[email_index[email]].password_hash)
    THEN Raised("AuthenticationError", MsgCredentials)
    ELSE Returned

\* (mutant) last_login is set as soon as the user is found, before the
\* password is verified
LoginTouchFirst(email, password, elapsed) ==
    LET out == LoginChecks(email, password)
        found == email \in DOMAIN email_index
        touched == IF found
                   THEN [users EXCEPT
                           ![email_index[email]].last_login = Some(now)]
                   ELSE users
    IN  IF out.kind # "ok"
        THEN /\ users' = touched
             /\ last' = Step("login", email, password, None, out,
                             None, None, None)
             /\ UNCHANGED <<email_index, registered, SessionState,
                            session_duration, now, PwdState,
                            CourseState, RaceState>>
        ELSE \E d1 \in elapsed, d2 \in elapsed :
             LET user_id == email_index[email]
                 token == FreshToken
                 t_expiry == now + d1
                 t_created == t_expiry + d2
                 session == NewSession(user_id, t_expiry, t_created)
             IN  /\ token \in Tokens
                 /\ t_created <= MaxClock
                 /\ users' = touched
                 /\ sessions' = Put(sessions, token, session)
                 /\ issued' = Put(issued, token,
                                   [email |-> email,
                                    expires_at |-> session.expires_at])
                 /\ now' = t_created
                 /\ last' = Step("login", email, password, Some(token), out,
                                 Some(user_id), None,
                                 Some(ToDict(touched[user_id])))
                 /\ UNCHANGED <<email_index, registered, revoked, absent,
                                session_duration, PwdState,
                                CourseState, RaceState>>

\* login; the clock is read for last_login, d1 later for the expiry and
\* d2 later again for created_at (create_session), d1 and d2 in elapsed
Login(email, password, elapsed) ==
    LET out == LoginChecks(email, password)
    IN  IF out.kind # "ok"
        THEN /\ last' = Step("login", email, password, None, out,
                             None, None, None)
             /\ UNCHANGED <<UserState, SessionState, session_duration, now,
                            PwdState, CourseState, RaceState>>
        ELSE \E d1 \in elapsed, d2 \in elapsed :
             LET user_id == email_index[email]
                 user == [users[user_id] EXCEPT !.last_login = Some(now)]
                 token == FreshToken
                 t_expiry == now + d1
                 t_created == t_expiry + d2
                 session == NewSession(user_id, t_expiry, t_created)
             IN  /\ token \in Tokens
                 /\ t_created <= MaxClock
                 /\ users' = [users EXCEPT ![user_id] = user]
                 /\ sessions' = Put(sessions, token, session)
                 /\ issued' = Put(issued, token,
                                   [email |-> email,
                                    expires_at |-> session.expires_at])
                 /\ now' = t_created
                 /\ last' = Step("login", email, password, Some(token), out,
                                 Some(user_id), None, Some(ToDict(user)))
                 /\ UNCHANGED <<email_index, registered, revoked, absent,
                                session_duration, PwdState,
                                CourseState, RaceState>>

\* time passes between two calls
Tick ==
    /\ now < MaxClock
    /\ now' = now + 1
    /\ last' = Step("tick", <<>>, <<>>, None, Returned, None, None, None)
    /\ UNCHANGED <<UserState, SessionState, session_duration, PwdState,
                   CourseState, RaceState>>

-----------------------------------------------------------------------------
(* The directory and its session store *)

Init ==
    /\ users = EmptyDict
    /\ email_index = EmptyDict
    /\ sessions = EmptyDict
    /\ session_duration \in Durations
    /\ now = 0
    /\ last = NoStep
    /\ issued = EmptyDict
    /\ registered = EmptyDict
    /\ revoked = {}
    /\ absent = {}
    /\ pw = <<>>
    /\ pw_result = NoStep
    /\ Elsewhere

Register ==
    \E email \in SessionEmails, password \in SessionPasswords,
       name \in Names, user_type \in SessionUserTypes, salt \in SessionSalts :
         RegisterUser(email, password, name, user_type, salt)
LoginCall ==
    \E email \in SessionEmails, password \in SessionPasswords :
         Login(email, password, Elapsed)
Validate == \E token \in Tokens : ValidateSession(token)
Revoke == \E token \in Tokens : RevokeSession(token)

Next == Register \/ LoginCall \/ Validate \/ Revoke \/ Tick

Spec == Init /\ [][Next]_vars

\* the directory alone: registrations and logins with every input
DirRegister ==
    \E email \in Emails, password \in Passwords, name \in Names,
       user_type \in UserTypes, salt \in Salts :
         RegisterUser(email, password, name, user_type, salt)
DirLogin ==
    \E email \in Emails, password \in Passwords :
         Login(email, password, {0})

DirNext == DirRegister \/ DirLogin

SpecDirectory == Init /\ [][DirNext]_vars

\* direct calls of PasswordManager.validate_password_strength
StrengthCall ==
    /\ pw_result = NoStep
    /\ pw_result' = Step("validate_password_strength", <<>>, pw, None,
                         ValidatePasswordStrength(pw), None, None, None)
    /\ UNCHANGED <<UserState, SessionState, session_duration, now, last, pw,
                   CourseState, RaceState>>

PwdInit ==
    /\ users = EmptyDict
    /\ email_index = EmptyDict
    /\ sessions = EmptyDict
    /\ session_duration = 0
    /\ now = 0
    /\ last = NoStep
    /\ issued = EmptyDict
    /\ registered = EmptyDict
    /\ revoked = {}
    /\ absent = {}
    /\ pw \in PwdInputs
    /\ pw_result = NoStep
    /\ Elsewhere

PwdNext == StrengthCall

SpecPwd == PwdInit /\ [][PwdNext]_vars

-----------------------------------------------------------------------------
(* Course catalog (src/course_manager.py) *)

UpperLetters ==
    <<"A", "B", "C", "D", "E", "F", "G", "H", "I", "J", "K", "L", "M", "N",
      "O", "P", "Q", "R", "S", "T", "U", "V", "W", "X", "Y", "Z">>
LowerLetters ==
    <<"a", "b", "c", "d", "e", "f", "g", "h", "i", "j", "k", "l", "m", "n",
      "o", "p", "q", "r", "s", "t", "u", "v", "w", "x", "y", "z">>

\* str.lower(), character by character
LowerChar(c) ==
    IF \E i \in 1..Len(UpperLetters) : UpperLetters[i] = c
    THEN LowerLetters[CHOOSE i \in 1..Len(UpperLetters) : UpperLetters[i] = c]
    ELSE c
Lower(s) == [i \in 1..Len(s) |-> LowerChar(s[i])]

\* str.strip(): leading and trailing whitespace removed
Whitespace == {" ", "\t", "\n"}
RECURSIVE LStrip(_)
LStrip(s) ==
    IF s # <<>> /\ s[1] \in Whitespace THEN LStrip(Tail(s)) ELSE s
RECURSIVE RStrip(_)
RStrip(s) ==
    IF s # <<>> /\ s[Len(s)] \in Whitespace
    THEN RStrip(SubSeq(s, 1, Len(s) - 1))
    ELSE s
Strip(s) == RStrip(LStrip(s))

VALID_LEVELS ==
    {<<"p", "r", "i", "n", "c", "i", "p", "i", "a", "n", "t", "e">>,
     <<"i", "n", "t", "e", "r", "m", "e", "d", "i", "o">>,
     <<"a", "v", "a", "n", "z", "a", "d", "o">>}
VALID_CATEGORIES ==
    {<<"p", "r", "o", "g", "r", "a", "m", "a", "c", "i", "o", "n">>,
     <<"d", "i", "s", "e", "n", "o">>,
     <<"n", "e", "g", "o", "c", "i", "o", "s">>,
     <<"m", "a", "r", "k", "e", "t", "i", "n", "g">>,
     <<"d", "e", "s", "a", "r", "r", "o", "l", "l", "o", "-", "p", "e",
       "r", "s", "o", "n", "a", "l">>,
     <<"i", "d", "i", "o", "m", "a", "s">>,
     <<"c", "i", "e", "n", "c", "i", "a", "s">>}

\* Course.__init__; created_at, updated_at and the empty modules, students
\* and rating fields are left out
NewCourse(course_id, title, description, instructor_id, price, level, category) ==
    [course_id |-> course_id, title |-> title, description |-> description,
     instructor_id |-> instructor_id, price |-> price, level |-> level,
     category |-> category]

MsgTitle == <<"El título debe tener al menos 10 caracteres">>
MsgDescription == <<"La descripción debe tener al menos 50 caracteres">>
MsgPrice == <<"El precio no puede ser negativo">>
MsgLevel == <<"Nivel inválido. Debe ser uno de: ">>
MsgCategory == <<"Categoría inválida. Debe ser una de: ">>
MsgExists(course_id) == <<"El curso con ID " \o course_id \o " ya existe">>

\* CourseManager._validate_course_data: the first failing check raises
ValidateCourseData(title, description, price, level, category) ==
    IF title = <<>> \/ Len(Strip(title)) < 10
    THEN Raised("CourseValidationError", MsgTitle)
    ELSE IF description = <<>> \/ Len(Strip(description)) < 50
    THEN Raised("CourseValidationError", MsgDescription)
    ELSE IF price < 0
    THEN Raised("CourseValidationError", MsgPrice)
    ELSE IF Lower(level) \notin VALID_LEVELS
    THEN Raised("CourseValidationError", MsgLevel)
    ELSE IF Lower(category) \notin VALID_CATEGORIES
    THEN Raised("CourseValidationError", MsgCategory)
    ELSE Returned

\* The indentation of the module at line 131.  The lines before it are
\* indented with spaces only: class body 4, method body 8, body of the last
\* "if" of _validate_course_data 12.  Line 131 ("def create_course(") is
\* indented with one tab.
IndentStack == <<0, 4, 8, 12>>
Line131Indent == <<"\t">>

\* the column a run of leading whitespace ends at, a tab reaching the next
\* multiple of tabsize
RECURSIVE Column(_, _)
Column(ws, tabsize) ==
    IF ws = <<>>
    THEN 0
    ELSE LET c == Column(SubSeq(ws, 1, Len(ws) - 1), tabsize)
         IN  IF ws[Len(ws)] = "\t"
             THEN ((c \div tabsize) + 1) * tabsize
             ELSE c + 1

\* the indentation levels left open by a line that starts at column col
RECURSIVE PopTo(_, _)
PopTo(stack, col) ==
    IF Len(stack) > 1 /\ col < stack[Len(stack)]
    THEN PopTo(SubSeq(stack, 1, Len(stack) - 1), col)
    ELSE stack

\* Python's indentation rule: the column is computed with tabs of 8 and,
\* for the consistency check, with tabs of 1; both must order the line the
\* same way against the open levels, else the module raises TabError.
Indentation(stack, altstack, ws) ==
    LET col == Column(ws, 8)
        altcol == Column(ws, 1)
        open == PopTo(stack, col)
        k == Len(open)
    IN  IF col > stack[Len(stack)]
        THEN IF altcol <= altstack[Len(stack)] THEN "TabError" ELSE "ok"
        ELSE IF col # open[k] THEN "IndentationError"
        ELSE IF altcol # altstack[k] THEN "TabError"
        ELSE "ok"

\* importing course_manager succeeds only if the module compiles
ModuleCompiles ==
    Indentation(IndentStack, IndentStack, Line131Indent) = "ok"

\* CourseManager.create_course: what a caller of it gets
CreateCourse(course_id, title, description, instructor_id, price, level, category) ==
    IF ~ModuleCompiles
    THEN Raised(Indentation(IndentStack, IndentStack, Line131Indent),
                <<"inconsistent use of tabs and spaces in indentation">>)
    ELSE IF course_id \in DOMAIN courses
    THEN Raised("CourseValidationError", MsgExists(course_id))
    ELSE ValidateCourseData(title, description, price, level, category)

\* the arguments of the create_course calls
TitleCurso == <<"C", "u", "r", "s", "o", " ", "T", "L", "A", "+">>
TitlePadded == <<" ", " ", " ", "C", "u", "r", "s", "o", " ", " ">>
TitleShort == <<"C", "u", "r", "s", "o">>
Description50 == [i \in 1..50 |-> "d"]
DescriptionPadded == [i \in 1..50 |-> IF i <= 49 THEN "d" ELSE " "]
CourseIds == {"c1", "c2"}
Titles == {TitleCurso, TitlePadded, TitleShort}
Descriptions == {Description50, DescriptionPadded}
InstructorIds == {"inst_1"}
Prices == {-1, 0, 10}
Levels == {<<"a", "v", "a", "n", "z", "a", "d", "o">>,
           <<"A", "v", "a", "n", "z", "a", "d", "o">>,
           <<"e", "x", "p", "e", "r", "t", "o">>}
Categories == {<<"i", "d", "i", "o", "m", "a", "s">>,
               <<"c", "o", "c", "i", "n", "a">>}

CreateCourseCall ==
    \E course_id \in CourseIds, title \in Titles,
       description \in Descriptions, instructor_id \in InstructorIds,
       price \in Prices, level \in Levels, category \in Categories :
        LET out == CreateCourse(course_id, title, description,
                                instructor_id, price, level, category)
            new_course == NewCourse(course_id, title, description,
                                    instructor_id, price, Lower(level),
                                    Lower(category))
        IN  /\ courses' = IF out.kind = "ok"
                          THEN Put(courses, course_id, new_course)
                          ELSE courses
            /\ course_last' =
                 CourseStep("create_course", course_id, title, description,
                            price, level, category, out,
                            IF out.kind = "ok" THEN Some(new_course)
                            ELSE None)
            /\ UNCHANGED <<UserState, SessionState, session_duration, now,
                           last, PwdState, RaceState>>

CourseNext == CreateCourseCall

SpecCourse == Init /\ [][CourseNext]_vars

-----------------------------------------------------------------------------
(* Concurrent callers.  The code takes no lock: a call runs statement by   *)
(* statement and the statements of two calls interleave in any order.  A   *)
(* frame holds the position of a call (the line it runs next), its         *)
(* arguments, its locals and, once it has ended, its outcome.              *)

Callers == {"c1", "c2"}
Running == [kind |-> "running", msg |-> <<>>]
AllDone(calls) == \A c \in DOMAIN calls : calls[c].pc = "done"

\* "user_" + secrets.token_hex(8) at line 178 of a concurrent call: a value
\* no call has drawn before
RaceFreshUserId ==
    <<"user_",
      Cardinality({c \in DOMAIN reg_call : reg_call[c].user_id # None}) + 1>>

RegFrame(email, password, salt) ==
    [pc |-> "171", email |-> email, password |-> password, salt |-> salt,
     user_id |-> None, kind |-> Running.kind, msg |-> Running.msg,
     overwrote |-> FALSE]

\* the call ends: it returns or raises
RegEnd(f, out) == [f EXCEPT !.pc = "done", !.kind = out.kind, !.msg = out.msg]

RegFrameOnly ==
    UNCHANGED <<UserState, SessionState, session_duration, now, last,
                PwdState, CourseState, sess_call>>

\* line 171: self._validate_email(email)
RegValidateEmail(c) ==
    /\ reg_call[c].pc = "171"
    /\ reg_call' = [reg_call EXCEPT ![c] =
         IF ValidateEmail(@.email).kind # "ok"
         THEN RegEnd(@, ValidateEmail(@.email))
         ELSE [@ EXCEPT !.pc = "173"]]
    /\ RegFrameOnly

\* lines 173-174: if email in self.email_index: raise
RegCheckUnique(c) ==
    /\ reg_call[c].pc = "173"
    /\ reg_call' = [reg_call EXCEPT ![c] =
         IF @.email \in DOMAIN email_index
         THEN RegEnd(@, Raised("ValidationError", MsgDuplicate(@.email)))
         ELSE [@ EXCEPT !.pc = "176"]]
    /\ RegFrameOnly

\* line 176: PasswordManager.validate_password_strength(password)
RegCheckStrength(c) ==
    /\ reg_call[c].pc = "176"
    /\ reg_call' = [reg_call EXCEPT ![c] =
         IF ValidatePasswordStrength(@.password).kind # "ok"
         THEN RegEnd(@, ValidatePasswordStrength(@.password))
         ELSE [@ EXCEPT !.pc = "178"]]
    /\ RegFrameOnly

\* lines 178-181: the user id, the hash and the User object, all local
RegMakeUser(c) ==
    /\ reg_call[c].pc = "178"
    /\ reg_call' = [reg_call EXCEPT ![c] =
         [@ EXCEPT !.pc = "183", !.user_id = Some(RaceFreshUserId)]]
    /\ RegFrameOnly

\* line 183: self.users[user_id] = new_user
RegStoreUser(c) ==
    LET f == reg_call[c]
        new_user == NewUser(f.user_id[1], f.email,
                            HashPassword(f.password, f.salt), "Ana",
                            "student")
    IN  /\ f.pc = "183"
        /\ users' = Put(users, f.user_id[1], new_user)
        /\ reg_call' = [reg_call EXCEPT ![c] = [@ EXCEPT !.pc = "184"]]
        /\ UNCHANGED <<email_index, registered, SessionState,
                       session_duration, now, last, PwdState, CourseState,
                       sess_call>>

\* lines 184-187: self.email_index[email] = user_id; return new_user
RegStoreIndex(c) ==
    LET f == reg_call[c]
    IN  /\ f.pc = "184"
        /\ email_index' = Put(email_index, f.email, f.user_id[1])
        /\ registered' = Put(registered, f.email, f.password)
        /\ reg_call' = [reg_call EXCEPT ![c] =
             [RegEnd(@, Returned) EXCEPT
                !.overwrote = f.email \in DOMAIN email_index]]
        /\ UNCHANGED <<users, SessionState, session_duration, now, last,
                       PwdState, CourseState, sess_call>>

\* two register_user calls start on an empty directory
RegRaceInit ==
    /\ users = EmptyDict
    /\ email_index = EmptyDict
    /\ sessions = EmptyDict
    /\ session_duration = 0
    /\ now = 0
    /\ last = NoStep
    /\ issued = EmptyDict
    /\ registered = EmptyDict
    /\ revoked = {}
    /\ absent = {}
    /\ pw = <<>>
    /\ pw_result = NoStep
    /\ courses = EmptyDict
    /\ course_last = NoCourseCall
    /\ reg_call \in [Callers -> {RegFrame(e, p, s) :
                        e \in SessionEmails, p \in SessionPasswords,
                        s \in SessionSalts}]
    /\ sess_call = NoCalls

RegRaceNext ==
    \E c \in Callers :
        \/ RegValidateEmail(c)
        \/ RegCheckUnique(c)
        \/ RegCheckStrength(c)
        \/ RegMakeUser(c)
        \/ RegStoreUser(c)
        \/ RegStoreIndex(c)

SpecRegRace == RegRaceInit /\ [][RegRaceNext]_vars

SessOps == {"validate_session", "revoke_session"}

SessFrame(op, token) ==
    [op |-> op, token |-> token,
     pc |-> IF op = "validate_session" THEN "140" ELSE "153",
     session |-> None, ret |-> None, flag |-> None,
     kind |-> Running.kind]

\* the call returns: validate_session its Optional[str], revoke_session its
\* bool (the value of a nested revoke_session is dropped at line 146)
SessReturn(f, ret, flag) ==
    [f EXCEPT !.pc = "done", !.kind = Returned.kind, !.ret = ret,
              !.flag = IF f.op = "revoke_session" THEN Some(flag) ELSE None]

SessFrameOnly ==
    UNCHANGED <<UserState, SessionState, session_duration, now, last,
                PwdState, CourseState, reg_call>>

\* line 140: session = self.sessions.get(token)
SessGet(c) ==
    LET f == sess_call[c]
    IN  /\ f.pc = "140"
        /\ sess_call' = [sess_call EXCEPT ![c] =
             [f EXCEPT !.pc = "142",
                       !.session = IF f.token \in DOMAIN sessions
                                   THEN Some(sessions[f.token]) ELSE None]]
        /\ SessFrameOnly

\* lines 142-143: if not session: return None
SessTest(c) ==
    /\ sess_call[c].pc = "142"
    /\ sess_call' = [sess_call EXCEPT ![c] =
         IF @.session = None
         THEN SessReturn(@, None, FALSE)
         ELSE [@ EXCEPT !.pc = "145"]]
    /\ SessFrameOnly

\* lines 145-149: past the expiry revoke_session is entered, else the user
\* id read at line 140 is returned
SessCompare(c) ==
    /\ sess_call[c].pc = "145"
    /\ sess_call' = [sess_call EXCEPT ![c] =
         IF now > @.session[1].expires_at
         THEN [@ EXCEPT !.pc = "153"]
         ELSE SessReturn(@, Some(@.session[1].user_id), FALSE)]
    /\ SessFrameOnly

\* line 153: if token in self.sessions (else line 156: return False)
SessContains(c) ==
    /\ sess_call[c].pc = "153"
    /\ sess_call' = [sess_call EXCEPT ![c] =
         IF @.token \in DOMAIN sessions
         THEN [@ EXCEPT !.pc = "154"]
         ELSE SessReturn(@, None, FALSE)]
    /\ SessFrameOnly

\* lines 154-155: del self.sessions[token]; return True.  del raises
\* KeyError when the key is no longer in the dict.
SessDel(c) ==
    LET f == sess_call[c]
    IN  /\ f.pc = "154"
        /\ sessions' = RevokeMap(sessions, f.token)
        /\ sess_call' = [sess_call EXCEPT ![c] =
             IF f.token \in DOMAIN sessions
             THEN SessReturn(@, None, TRUE)
             ELSE [@ EXCEPT !.pc = "done", !.kind = "KeyError"]]
        /\ UNCHANGED <<UserState, issued, revoked, absent,
                       session_duration, now, last, PwdState, CourseState,
                       reg_call>>

\* the session map when the concurrent calls start: one user registered and
\* logged in at instant 0 with token 1
SessRaceUserId == <<"user_", 1>>
SessRaceStore == Put(EmptyDict, 1, NewSession(SessRaceUserId, 0, 0))

SessRaceInit ==
    /\ \E salt \in SessionSalts :
         users = Put(EmptyDict, SessRaceUserId,
                     [NewUser(SessRaceUserId, EmailAna,
                              HashPassword(Passw0rd, salt), "Ana",
                              "student")
                        EXCEPT !.last_login = Some(0)])
    /\ email_index = Put(EmptyDict, EmailAna, SessRaceUserId)
    /\ session_duration = 0
    /\ sessions = SessRaceStore
    /\ now \in 0..MaxClock
    /\ last = NoStep
    /\ issued = Put(EmptyDict, 1, [email |-> EmailAna,
                                   expires_at |-> SessRaceStore[1].expires_at])
    /\ registered = Put(EmptyDict, EmailAna, Passw0rd)
    /\ revoked = {}
    /\ absent = {}
    /\ pw = <<>>
    /\ pw_result = NoStep
    /\ courses = EmptyDict
    /\ course_last = NoCourseCall
    /\ reg_call = NoCalls
    /\ sess_call \in [Callers -> {SessFrame(op, t) :
                         op \in SessOps, t \in Tokens}]

SessRaceNext ==
    \E c \in Callers :
        \/ SessGet(c)
        \/ SessTest(c)
        \/ SessCompare(c)
        \/ SessContains(c)
        \/ SessDel(c)

SpecSessRace == SessRaceInit /\ [][SessRaceNext]_vars

-----------------------------------------------------------------------------
(* Properties of the session life cycle (checked under Spec) *)

ValidateStepOn(t) == last'.op = "validate_session" /\ last'.token = Some(t)
RevokeStepOn(t) == last'.op = "revoke_session" /\ last'.token = Some(t)

\* C1: a token that login returned for a registered email validates to that
\* user's user_id at every later validate_session call made while the clock
\* has not passed the session's expires_at and the token has not been
\* revoked, whatever other calls happened in between.
C1_ValidUntilExpiredOrRevoked ==
    [][\A t \in DOMAIN issued :
         (ValidateStepOn(t) /\ t \notin revoked /\ now <= issued[t].expires_at)
            => last'.uid = Some(email_index[issued[t].email])]_vars

\* C1 witness: the first token validates after a second login took place and
\* the second token was revoked.
C1_Witness ==
    /\ last.op = "validate_session"
    /\ last.token = Some(1)
    /\ last.uid # None
    /\ 2 \in revoked
    /\ issued[2].email # issued[1].email

\* C2: once revoke_session(t) has returned True or validate_session(t) has
\* returned None for an issued token t, every later validate_session(t)
\* returns None and every later revoke_session(t) returns False.
C2_NoWayBack ==
    [][\A t \in revoked \cup absent :
         /\ ValidateStepOn(t) => last'.uid = None
         /\ RevokeStepOn(t) => last'.flag = Some(FALSE)]_vars

\* C2 witness: a revoked token is validated again, and found absent, while a
\* newer session of the same user is stored.
C2_Witness ==
    /\ last.op = "validate_session"
    /\ last.uid = None
    /\ \E t \in revoked : \E t2 \in DOMAIN sessions :
          /\ last.token = Some(t)
          /\ t2 > t
          /\ sessions[t2].user_id = email_index[issued[t].email]

\* C3: validate_session on a stored session returns None and removes the
\* entry when expires_at is earlier than the clock; otherwise it returns the
\* owning user_id and keeps the entry as it is.
C3_LazyExpiry ==
    [][\A t \in DOMAIN sessions :
         ValidateStepOn(t) =>
            IF sessions[t].expires_at < now
            THEN /\ last'.uid = None
                 /\ t \notin DOMAIN sessions'
            ELSE /\ last'.uid = Some(sessions[t].user_id)
                 /\ t \in DOMAIN sessions'
                 /\ sessions'[t] = sessions[t]]_vars

\* C3 witness: validate_session found a stored, never revoked session
\* expired and returned None.
C3_Witness ==
    /\ last.op = "validate_session"
    /\ last.uid = None
    /\ \E t \in absent \ revoked :
          /\ last.token = Some(t)
          /\ issued[t].expires_at < now

\* C6: a successful login adds exactly one entry to the session map, keyed
\* by the returned token and owned by the user logging in, sets that user's
\* last_login to the clock value, and returns a view without password_hash.
C6_LoginEffect ==
    [][(last'.op = "login" /\ last'.kind = "ok") =>
         LET token == last'.token[1]
             user_id == email_index[last'.email]
         IN  /\ token \notin DOMAIN sessions
             /\ DOMAIN sessions' = DOMAIN sessions \cup {token}
             /\ \A t \in DOMAIN sessions : sessions'[t] = sessions[t]
             /\ sessions'[token].user_id = user_id
             /\ users'[user_id].last_login = Some(now)
             /\ last'.uid = Some(user_id)
             /\ "password_hash" \notin DOMAIN last'.view[1]
             /\ last'.view[1].user_id = user_id]_vars

\* C6 witness: a login succeeded while another session was stored.
C6_Witness ==
    /\ last.op = "login"
    /\ last.kind = "ok"
    /\ Cardinality(DOMAIN sessions) = 2

\* C8: revoke_session(t) returns True exactly when t is in the session map
\* at the call, expired or not; afterwards t is not in the map; a revoke
\* that follows a revoke of the same token returns False; none raises.
C8_RevokeIdempotent ==
    [][\A t \in Tokens :
         RevokeStepOn(t) =>
            /\ last'.kind = "ok"
            /\ last'.flag = Some(t \in DOMAIN sessions)
            /\ t \notin DOMAIN sessions'
            /\ (last.op = "revoke_session" /\ last.token = Some(t))
                  => last'.flag = Some(FALSE)]_vars

\* C8 witness: revoke_session returned True for a session already past its
\* expires_at.
C8_Witness ==
    /\ last.op = "revoke_session"
    /\ last.flag = Some(TRUE)
    /\ issued[last.token[1]].expires_at < now

-----------------------------------------------------------------------------
(* Properties of the directory (checked under SpecDirectory) *)

\* the strength policy as the specification words it
RuleHolds(i, p) ==
    CASE i = 1 -> Len(p) >= 8
      [] i = 2 -> \E k \in 1..Len(p) : p[k] \in UpperAZ
      [] i = 3 -> \E k \in 1..Len(p) : p[k] \in LowerAZ
      [] i = 4 -> \E k \in 1..Len(p) : p[k] \in Digit09
RuleMsg(i) ==
    CASE i = 1 -> <<"Contraseña debe tener 8+ caracteres">>
      [] i = 2 -> <<"Debe contener una mayúscula">>
      [] i = 3 -> <<"Debe contener una minúscula">>
      [] i = 4 -> <<"Debe contener un número">>
Violated(p) == {i \in 1..4 : ~RuleHolds(i, p)}
FirstViolated(p) == CHOOSE i \in Violated(p) : \A j \in Violated(p) : i <= j
Strong(p) == Violated(p) = {}

\* C4: an email maps to at most one user_id for the lifetime of the
\* directory: a register_user call for an indexed email fails with
\* ValidationError, an indexed email keeps its user_id, and no two stored
\* users have the same email.
C4_EmailUnique ==
    [][/\ \A e \in DOMAIN email_index :
             e \in DOMAIN email_index' /\ email_index'[e] = email_index[e]
       /\ (last'.op = "register_user" /\ last'.email \in DOMAIN email_index)
             => last'.kind = "ValidationError"
       /\ \A u1, u2 \in DOMAIN users' :
             users'[u1].email = users'[u2].email => u1 = u2]_vars

\* C4 witness: a second registration of an indexed email, with a password
\* that passes the policy, was refused while two users are stored.
C4_Witness ==
    /\ last.op = "register_user"
    /\ last.kind = "ValidationError"
    /\ last.email \in DOMAIN email_index
    /\ Strong(last.password)
    /\ Cardinality(DOMAIN users) = 2

\* C5: a login that fails gives the outcome that any other failing login
\* would give in the same directory, whether its email is registered or
\* not: the same error kind, AuthenticationError, the same message, and no
\* token, user id or view.
C5_FailedLoginUniform ==
    (last.op = "login" /\ last.kind # "ok") =>
        /\ last.kind = "AuthenticationError"
        /\ last.token = None /\ last.uid = None /\ last.view = None
        /\ \A e \in Emails, p \in Passwords :
              LoginChecks(e, p).kind # "ok" =>
                 /\ LoginChecks(e, p).kind = last.kind
                 /\ LoginChecks(e, p).msg = last.msg

\* C5 witness: a login with a registered email and a wrong password failed
\* while some other email is not registered.
C5_Witness ==
    /\ last.op = "login"
    /\ last.kind = "AuthenticationError"
    /\ last.email \in DOMAIN email_index
    /\ \E e \in Emails : e \notin DOMAIN email_index

\* passwords given to hash_password and verify_password directly
HashInputs == Passwords \cup {<<>>, <<"$">>, <<"a", "$", "h", "a">>}

\* C7: verify_password(p1, hash_password(p2)) is true exactly when p1 = p2,
\* for every salt; a stored hash verifies exactly the password given at
\* registration; and a login with a registered email succeeds exactly when
\* its password is the one given at registration.
C7_VerifyMatchesHash ==
    /\ \A p1, p2 \in HashInputs : \A salt \in Salts :
          VerifyPassword(p1, HashPassword(p2, salt)) <=> (p1 = p2)
    /\ \A u \in DOMAIN users : \A p \in Passwords :
          VerifyPassword(p, users[u].password_hash)
             <=> (p = registered[users[u].email])
    /\ (last.op = "login" /\ last.email \in DOMAIN registered) =>
          ((last.kind = "ok") <=> (last.password = registered[last.email]))

\* C7 witness: a login with a registered email was refused for a password
\* that passes the policy but is not the registered one.
C7_Witness ==
    /\ last.op = "login"
    /\ last.kind # "ok"
    /\ last.email \in DOMAIN registered
    /\ Strong(last.password)

\* C9: register_user reports the first failing check in the order email
\* syntax, email uniqueness, password strength, and stores a user only when
\* all three pass.
C9_RegisterCheckOrder ==
    [][last'.op = "register_user" =>
         LET e == last'.email
             p == last'.password
         IN  IF ~MatchesEmailPattern(e)
             THEN /\ last'.kind = "ValidationError"
                  /\ last'.msg = <<"Email inválido">>
                  /\ users' = users /\ email_index' = email_index
             ELSE IF e \in DOMAIN email_index
             THEN /\ last'.kind = "ValidationError"
                  /\ last'.msg = <<"Email ">> \o e \o <<" ya registrado">>
                  /\ users' = users /\ email_index' = email_index
             ELSE IF ~Strong(p)
             THEN /\ last'.kind = "ValidationError"
                  /\ last'.msg = RuleMsg(FirstViolated(p))
                  /\ users' = users /\ email_index' = email_index
             ELSE /\ last'.kind = "ok"
                  /\ e \in DOMAIN email_index'
                  /\ DOMAIN users' = DOMAIN users \cup {email_index'[e]}
                  /\ users'[email_index'[e]].email = e]_vars

\* C9 witness: an already-registered email with a weak password was refused
\* with the duplicate-email message.
C9_Witness ==
    /\ last.op = "register_user"
    /\ last.email \in DOMAIN email_index
    /\ ~Strong(last.password)
    /\ last.msg = <<"Email ">> \o last.email \o <<" ya registrado">>

-----------------------------------------------------------------------------
(* Properties of the strength policy (checked under SpecPwd) *)

\* C10: validate_password_strength accepts a password exactly when it has
\* length >= 8, an uppercase letter, a lowercase letter and a digit, and
\* otherwise raises ValidationError with the message of the first violated
\* rule in the order length, uppercase, lowercase, digit.
C10_FirstViolationWins ==
    pw_result.op = "validate_password_strength" =>
        IF Strong(pw)
        THEN pw_result.kind = "ok"
        ELSE /\ pw_result.kind = "ValidationError"
             /\ pw_result.msg = RuleMsg(FirstViolated(pw))

\* C10 witness: a password long enough, with a lowercase letter and neither
\* an uppercase letter nor a digit, was refused for the missing uppercase.
C10_Witness ==
    /\ pw_result.op = "validate_password_strength"
    /\ Violated(pw) = {2, 4}
    /\ pw_result.msg = <<"Debe contener una mayúscula">>

-----------------------------------------------------------------------------
(* Properties of the stored records *)

\* C11: every stored session has expires_at = created_at + the configured
\* session duration, however the clock advances inside create_session.
C11_ExpiryFromCreation ==
    \A t \in DOMAIN sessions :
        sessions[t].expires_at = sessions[t].created_at + session_duration

\* C12: every stored user has user_type in {student, instructor, admin},
\* whatever user_type register_user was given.
C12_UserTypeValid ==
    \A u \in DOMAIN users : users[u].user_type \in VALID_USER_TYPES

\* C13 as stated: with a session duration of 0 the validate_session call
\* that follows the creation of a token returns None, whether or not the
\* clock has advanced since.
C13_ExpiredAtCreation ==
    [][(/\ session_duration = 0
        /\ last.op = "login" /\ last.kind = "ok"
        /\ ValidateStepOn(last.token[1]))
          => last'.uid = None]_vars

\* C13 (amended): with a session duration of 0, validate_session on a
\* stored token returns None exactly when the clock has advanced beyond the
\* instant create_session read for the expiry; at that instant itself it
\* returns the owning user_id and keeps the entry.
C13_ZeroDurationExpiry ==
    [][session_duration = 0 =>
         \A t \in DOMAIN sessions :
            ValidateStepOn(t) =>
               /\ (last'.uid = None) <=> (now > issued[t].expires_at)
               /\ now = issued[t].expires_at =>
                     /\ last'.uid = Some(email_index[issued[t].email])
                     /\ t \in DOMAIN sessions']_vars

\* C13 witness: with duration 0 a validate_session call made at the very
\* instant of the expiry returned the user id.
C13_Witness ==
    /\ session_duration = 0
    /\ last.op = "validate_session"
    /\ last.uid # None
    /\ now = issued[last.token[1]].expires_at

-----------------------------------------------------------------------------
(* Properties of the course catalog (checked under SpecCourse) *)

\* C14: create_course with a course_id not yet in the catalog and valid
\* fields (title of at least 10 characters, description of at least 50,
\* price >= 0, a valid level and category) returns a course carrying the
\* given course_id and price and stores it under that course_id; with a
\* course_id already in the catalog or an invalid field it raises
\* CourseValidationError and leaves the catalog unchanged.
C14_CreateCourse ==
    [][course_last'.op = "create_course" =>
        LET c == course_last'
        IN  IF /\ c.course_id \notin DOMAIN courses
               /\ Len(c.title) >= 10
               /\ Len(c.description) >= 50
               /\ c.price >= 0
               /\ Lower(c.level) \in VALID_LEVELS
               /\ Lower(c.category) \in VALID_CATEGORIES
            THEN /\ c.kind = "ok"
                 /\ c.course # None
                 /\ c.course[1].course_id = c.course_id
                 /\ c.course[1].price = c.price
                 /\ c.course_id \in DOMAIN courses'
                 /\ courses'[c.course_id] = c.course[1]
            ELSE /\ c.kind = "CourseValidationError"
                 /\ courses' = courses]_vars

-----------------------------------------------------------------------------
(* Frame properties: what a call leaves alone *)

\* C15: a register_user call that fails with ValidationError (ill-formed
\* email, registered email or weak password) leaves the user map, the email
\* index and the session map as they were before the call.
C15_FailedRegisterNoEffect ==
    [][(last'.op = "register_user" /\ last'.kind = "ValidationError") =>
          /\ users' = users
          /\ email_index' = email_index
          /\ sessions' = sessions]_vars

\* C15 witness: a registration was refused for a weak password while the
\* directory held a user and a session.
C15_Witness ==
    /\ last.op = "register_user"
    /\ last.kind = "ValidationError"
    /\ last.msg \notin {MsgEmail, MsgDuplicate(last.email)}
    /\ DOMAIN users # {}
    /\ DOMAIN sessions # {}

\* C16: a login call that fails with AuthenticationError (unknown email or
\* wrong password) creates no session and leaves the session map, the user
\* map, the email index and the target user's last_login unchanged.
C16_FailedLoginNoEffect ==
    [][(last'.op = "login" /\ last'.kind = "AuthenticationError") =>
          /\ last'.token = None
          /\ sessions' = sessions
          /\ issued' = issued
          /\ users' = users
          /\ email_index' = email_index
          /\ last'.email \in DOMAIN email_index =>
               users'[email_index[last'.email]].last_login
                 = users[email_index[last'.email]].last_login]_vars

\* C16 witness: a login with a wrong password was refused for a registered
\* user who had never logged in, while another session was stored.
C16_Witness ==
    /\ last.op = "login"
    /\ last.kind = "AuthenticationError"
    /\ last.email \in DOMAIN email_index
    /\ users[email_index[last.email]].last_login = None
    /\ DOMAIN sessions # {}

\* C17: a stored session is removed or changed only by a validate_session
\* call on its own token made after its expiry or by a revoke_session call
\* on its own token; every other call leaves it in the map unchanged.  And
\* validate_session and revoke_session never change the user map or the
\* email index.
C17_SessionFrame ==
    [][/\ \A t \in DOMAIN sessions :
            (t \notin DOMAIN sessions' \/ sessions'[t] # sessions[t]) =>
               \/ RevokeStepOn(t)
               \/ ValidateStepOn(t) /\ now > sessions[t].expires_at
       /\ last'.op \in {"validate_session", "revoke_session"} =>
            /\ users' = users
            /\ email_index' = email_index]_vars

\* C17 witness: an expired session is still stored after a validate_session
\* or revoke_session call on another token.
C17_Witness ==
    \E t \in DOMAIN sessions :
        /\ now > sessions[t].expires_at
        /\ last.op \in {"validate_session", "revoke_session"}
        /\ last.token # Some(t)

\* C18: the email index and the user map agree: every stored user is
\* indexed under its email, every index entry points to a stored user
\* carrying that email, and there are as many users as indexed emails.
C18_IndexAgrees ==
    /\ \A u \in DOMAIN users :
          /\ users[u].email \in DOMAIN email_index
          /\ email_index[users[u].email] = u
    /\ \A e \in DOMAIN email_index :
          /\ email_index[e] \in DOMAIN users
          /\ users[email_index[e]].email = e
    /\ Cardinality(DOMAIN users) = Cardinality(DOMAIN email_index)

\* C18 witness: two registrations have succeeded.
C18_Witness ==
    /\ Cardinality(DOMAIN users) = 2
    /\ last.op = "register_user"
    /\ last.kind = "ok"

-----------------------------------------------------------------------------
(* Concurrent callers (checked under SpecRegRace and SpecSessRace) *)

\* C19: of two concurrent register_user calls for the same email at most
\* one succeeds, the directory never holds two user records for one email,
\* and no call overwrites an index entry.
C19_RegisterAtomic ==
    /\ \A c, d \in DOMAIN reg_call :
          (c # d /\ reg_call[c].email = reg_call[d].email) =>
             ~(reg_call[c].kind = "ok" /\ reg_call[d].kind = "ok")
    /\ \A u, v \in DOMAIN users :
          users[u].email = users[v].email => u = v
    /\ \A c \in DOMAIN reg_call : ~reg_call[c].overwrote

\* what one call returns, and the map it leaves, when it runs alone on map
SerialCall(map, f) ==
    IF f.op = "validate_session"
    THEN [map |-> ValidateMap(map, f.token, now),
          ret |-> ValidateValue(map, f.token, now), flag |-> None]
    ELSE [map |-> RevokeMap(map, f.token),
          ret |-> None, flag |-> Some(RevokeValue(map, f.token))]

\* the calls a then b, one after the other, give the outcome reached
SerialOrder(a, b) ==
    LET ra == SerialCall(SessRaceStore, sess_call[a])
        rb == SerialCall(ra.map, sess_call[b])
    IN  /\ sess_call[a].ret = ra.ret /\ sess_call[a].flag = ra.flag
        /\ sess_call[b].ret = rb.ret /\ sess_call[b].flag = rb.flag
        /\ sessions = rb.map

\* C20: concurrent validate_session and revoke_session calls end with the
\* return values and the session map of some serial order of the calls; no
\* call fails with an error and at most one revoke of a token returns True.
C20_SessionOpsAtomic ==
    /\ \A c \in DOMAIN sess_call : sess_call[c].kind # "KeyError"
    /\ \A c, d \in DOMAIN sess_call :
          (/\ c # d
           /\ sess_call[c].token = sess_call[d].token
           /\ sess_call[c].op = "revoke_session"
           /\ sess_call[d].op = "revoke_session") =>
             ~(/\ sess_call[c].flag = Some(TRUE)
               /\ sess_call[d].flag = Some(TRUE))
    /\ (sess_call # NoCalls /\ AllDone(sess_call)) =>
          \E a, b \in DOMAIN sess_call : a # b /\ SerialOrder(a, b)

====
